---- MODULE Spec2Model ----
(***************************************************************************)
(* Barter exchange of the food-waste backend: the relational store rows    *)
(* (barter items, chats, transactions, transaction items, coin ledger)     *)
(* and the request handlers that read and write them one SQL statement at  *)
(* a time.  No handler opens a database transaction, so every statement is *)
(* one atomic step and the statements of concurrent requests interleave.   *)
(***************************************************************************)
EXTENDS Integers, Sequences, FiniteSets, TLC

\* ---------------------------------------------------------------- bounds
MaxCalls == 4        \* requests started in one behaviour
MaxFailures == 1     \* statements that return a store error
MaxClock == 2        \* readings of time.Now()
MaxCoinTxs == 3      \* rows of the coin ledger
MaxChats == 3        \* rows of barter_chats
MaxTxs == 2          \* rows of barter_transactions
MaxMessages == 2     \* rows of barter_messages
MaxItems == 4        \* rows of barter_items
MaxScans == 1        \* rows of receipt_scans
MaxFoodItems == 1    \* rows of food_items

\* ------------------------------------------------------- program constants
BARTER_TRANSACTION_COIN_COST == 5
COST_RECIPE_RECOMMENDATION == 15
COST_EXPIRY_MANAGEMENT == 10
COST_BARTER_TRANSACTION == 5
COINS_PER_DONATION_ITEM == 5

\* ------------------------------------------------------------- populations
Procs == {"p1", "p2"}            \* concurrent request flows
Users == {"A", "B", "S"}         \* A lists item I, B offers item J, S is a third user
Items == {"I", "J"}
Chats == {"c1"}
Txs == {"t1"}
ChatIds == {"c1", "c2", "c3", "c4", "c5"}   \* values uuid.New() gives to chats
TxIds == {"t1", "t2", "t3", "t4"}           \* values uuid.New() gives to transactions
ItemStatuses == {"Available", "Reserved", "Completed"}
Features == {"Recipe", "ExpiryManagement", "Barter", "Unknown"}
Amounts == {0, 5}                \* UseCoinRequest.Amount / RewardCoinRequest.Amount
Quantities == {1, 2}
DonationIds == {"d1", "d2"}
DonationStatuses == {"Pending", "Accepted", "Completed", "Cancelled", "Rejected"}   \* req.Status
NewItemIds == <<"K", "L", "M", "N", "O", "P">>   \* values uuid.New() gives to items, by request
Radii == {1, 2}                  \* radiusKm of a search
RequestQuantities == {0, 1}      \* BarterItemRequest.Quantity
NewScanIds == <<"s1", "s2", "s3">>   \* values uuid.New() gives to scans
ScanIds == {NewScanIds[n] : n \in DOMAIN NewScanIds}

\* ----------------------------------------------------------------- state
VARIABLES
  barterItems,             \* barter_items rows: id -> [UserID, Status, Quantity]
  barterChats,             \* barter_chats rows: id -> [BarterItemID, OffererID, OwnerID, Status, LastMessageTime]
  barterTransactions,      \* barter_transactions rows
  barterTransactionItems,  \* barter_transaction_items rows (a set)
  barterMessages,          \* barter_messages rows in creation order
  coinTransactions,        \* coin_transactions rows in creation order
  now,                     \* time.Now()
  pc,                      \* position of each request flow
  local,                   \* locals of each request flow, and its last result
  finalizeCount,           \* history: times the finalize block ran, per transaction
  okConfirm,               \* history: users whose confirmation of a Pending transaction returned nil
  failures,                \* store errors injected so far
  calls,                   \* requests started so far
  s3Objects,               \* object keys held by the S3 bucket
  barterItemLocations,     \* barter_items.latitude / longitude: id -> <<lat, lng>>
  donations,               \* donations rows: id -> [UserID, Status, CompletedAt, CoinsRewarded]
  donationItems,           \* donation_items rows (a set)
  receiptScans,            \* receipt_scans rows: id -> [UserID, Status]
  scanWorker,              \* position of the goroutine UploadReceipt started, per scan
  foodItems                \* food_items rows in creation order

storeVars == <<barterItems, barterChats, barterTransactions, barterTransactionItems>>
otherVars == <<s3Objects, barterItemLocations, donations, donationItems, receiptScans,
               scanWorker, foodItems>>
vars == <<barterItems, barterChats, barterTransactions, barterTransactionItems,
          barterMessages, coinTransactions, now, pc, local, finalizeCount, okConfirm, failures, calls,
          s3Objects, barterItemLocations, donations, donationItems, receiptScans, scanWorker,
          foodItems>>

NoTransaction == [ChatID |-> "-", OwnerConfirmed |-> FALSE, OffererConfirmed |-> FALSE,
                  Status |-> "-", CoinsCharged |-> 0, CompletedAt |-> 0]
NoItem == [UserID |-> "-", Status |-> "-", Quantity |-> 0]
NoScan == [UserID |-> "-", Status |-> "-"]
NoLocal == [op |-> "-", user |-> "-", id |-> "-", isOwner |-> FALSE,
            startStatus |-> "-", transaction |-> NoTransaction, items |-> <<>>,
            item |-> NoItem, amount |-> 0, balance |-> 0, result |-> "-",
            chat |-> "-", ownerItemIds |-> {}, status |-> "-", completedAt |-> 0,
            lat |-> 0, lng |-> 0, image |-> FALSE, imageURL |-> "-", scan |-> NoScan]

\* The rows outside the barter tables: no uploaded object, the two listed
\* items at their places, A's donation of two food items and B's of one,
\* both Pending with nothing rewarded, and no receipt scan.
InitOther ==
  /\ s3Objects = {}
  /\ barterItemLocations = [i \in Items |-> IF i = "I" THEN <<0, 0>> ELSE <<1, 0>>]
  /\ donations = [d \in DonationIds |->
       [UserID |-> IF d = "d1" THEN "A" ELSE "B", Status |-> "Pending",
        CompletedAt |-> 0, CoinsRewarded |-> 0]]
  /\ donationItems = {[DonationID |-> "d1", FoodItemID |-> "f1"],
                      [DonationID |-> "d1", FoodItemID |-> "f2"],
                      [DonationID |-> "d2", FoodItemID |-> "f3"]}
  /\ receiptScans = [s \in {} |-> NoScan]
  /\ scanWorker = [s \in {} |-> "-"]
  /\ foodItems = <<>>

\* The store after A and B have each listed one item (created Available),
\* B has expressed interest in I, and a transaction I-for-J has been
\* proposed: both flags false, Pending, nothing charged, not completed.
Init ==
  /\ barterItems = [i \in Items |->
       [UserID |-> IF i = "I" THEN "A" ELSE "B", Status |-> "Available", Quantity |-> 1]]
  /\ barterChats = [c \in Chats |->
       [BarterItemID |-> "I", OffererID |-> "B", OwnerID |-> "A", Status |-> "Active",
        LastMessageTime |-> 0]]
  /\ barterTransactions = [t \in Txs |->
       [ChatID |-> "c1", OwnerConfirmed |-> FALSE, OffererConfirmed |-> FALSE,
        Status |-> "Pending", CoinsCharged |-> 0, CompletedAt |-> 0]]
  /\ barterTransactionItems =
       {[TransactionID |-> "t1", BarterItemID |-> "I", OwnerItem |-> TRUE],
        [TransactionID |-> "t1", BarterItemID |-> "J", OwnerItem |-> FALSE]}
  /\ barterMessages = <<>>
  /\ coinTransactions = <<>>
  /\ now = 1
  /\ pc = [p \in Procs |-> "idle"]
  /\ local = [p \in Procs |-> NoLocal]
  /\ finalizeCount = [t \in Txs |-> 0]
  /\ okConfirm = {}
  /\ failures = 0
  /\ calls = 0
  /\ InitOther

\* ------------------------------------------------------------ repository
\* GetBarterTransactionByChat: the transaction row of a chat.
\* First() of the rows with that chat_id, "-" when there is none (nil, nil).
GetBarterTransactionByChat(c) ==
  LET found == {t \in DOMAIN barterTransactions : barterTransactions[t].ChatID = c}
  IN IF found = {} THEN "-" ELSE CHOOSE t \in found : TRUE

\* GetBarterTransactionItems: the ids of the items linked to a transaction.
GetBarterTransactionItems(t) ==
  {ti.BarterItemID : ti \in {x \in barterTransactionItems : x.TransactionID = t}}

\* UpdateBarterItemStatus: UPDATE barter_items SET status = ? WHERE id = ?
UpdateBarterItemStatus(rows, id, status) ==
  [rows EXCEPT ![id].Status = status]

\* UpdateBarterChatStatus: UPDATE barter_chats SET status = ? WHERE id = ?
UpdateBarterChatStatus(rows, id, status) ==
  [rows EXCEPT ![id].Status = status]

\* ConfirmFields with the role test lost: the owner's column for either role.
ConfirmFieldsOwnerOnly(isOwner) ==
  "owner_confirmed"

\* The column ConfirmBarterTransaction sets for the caller's side.
ConfirmFields(isOwner) ==
  IF isOwner THEN "owner_confirmed" ELSE "offerer_confirmed"

\* The update with both flag columns in its field map.
ApplyConfirmFieldsBoth(row, field) ==
  [row EXCEPT !.OwnerConfirmed = TRUE, !.OffererConfirmed = TRUE]

\* Updates(fields) on the transaction row.
ApplyConfirmFields(row, field) ==
  IF field = "owner_confirmed"
  THEN [row EXCEPT !.OwnerConfirmed = TRUE]
  ELSE [row EXCEPT !.OffererConfirmed = TRUE]

\* The finalize block's first write: status and completed_at, nothing else.
FinalizeFields(row, t) ==
  [row EXCEPT !.Status = "Completed", !.CompletedAt = t]

\* All orders in which a query without ORDER BY may return a set of rows.
Orderings(S) ==
  {s \in [1..Cardinality(S) -> S] : \A i, j \in 1..Cardinality(S) : i # j => s[i] # s[j]}

\* ------------------------------------------------------------- coin ledger
\* GetUserBalance: Balance of the user's latest row, 0 when there is none.
RECURSIVE LatestBalance(_, _)
LatestBalance(rows, u) ==
  IF rows = <<>> THEN 0
  ELSE IF rows[Len(rows)].UserID = u THEN rows[Len(rows)].Balance
  ELSE LatestBalance(SubSeq(rows, 1, Len(rows) - 1), u)

GetUserBalance(u) == LatestBalance(coinTransactions, u)

\* UseCoins: the cost of a feature, 0 standing for ErrInvalidFeature.
FeatureCost(feature) ==
  CASE feature = "Recipe" -> COST_RECIPE_RECOMMENDATION
    [] feature = "ExpiryManagement" -> COST_EXPIRY_MANAGEMENT
    [] feature = "Barter" -> COST_BARTER_TRANSACTION
    [] OTHER -> 0

\* ------------------------------------------------------- request plumbing
Return(p, loc, res) ==
  /\ pc' = [pc EXCEPT ![p] = "idle"]
  /\ local' = [local EXCEPT ![p] =
       [NoLocal EXCEPT !.op = loc.op, !.user = loc.user,
                       !.startStatus = loc.startStatus, !.result = res]]

Goto(p, label, loc) ==
  /\ pc' = [pc EXCEPT ![p] = label]
  /\ local' = [local EXCEPT ![p] = loc]

StartCall(p) ==
  /\ pc[p] = "idle"
  /\ calls < MaxCalls
  /\ calls' = calls + 1

\* A confirmation that returns nil, having started on a Pending transaction.
ConfirmReturnsNil(p) ==
  /\ Return(p, local[p], "nil")
  /\ okConfirm' = IF local[p].startStatus = "Pending"
                  THEN okConfirm \cup {local[p].user} ELSE okConfirm

\* Everyone counted as a participant.
IsBarterParticipantAnyone(chat, u) == TRUE

\* The caller is the chat's owner or its offerer.
IsBarterParticipant(chat, u) == u = chat.OwnerID \/ u = chat.OffererID

\* ----------------------------------------------- confirmCompletion: service
\* ConfirmBarterCompletion without the AlreadyCompleted test.
ConfirmBarterCompletionUnchecked(p, u, c) ==
  LET chat == barterChats[c]
      t == GetBarterTransactionByChat(c)
      loc == [NoLocal EXCEPT !.op = "confirm", !.user = u, !.id = t,
                             !.startStatus = IF t = "-" THEN "-" ELSE barterTransactions[t].Status,
                             !.isOwner = (u = chat.OwnerID)]
  IN /\ StartCall(p)
     /\ IF ~IsBarterParticipant(chat, u)
        THEN Return(p, loc, "ErrUnauthorizedBarterAccess")
        ELSE IF t = "-"
        THEN Return(p, loc, "ErrBarterTransactionNotFound")
        ELSE Goto(p, "cbtUpdate", loc)
     /\ UNCHANGED <<barterMessages, storeVars, coinTransactions, now, otherVars, finalizeCount, okConfirm, failures>>

\* ConfirmBarterCompletion up to its repository call: the caller's role in
\* the chat, Unauthorized for anyone else, AlreadyCompleted for a Completed
\* transaction.
ConfirmBarterCompletion(p, u, c) ==
  LET chat == barterChats[c]
      t == GetBarterTransactionByChat(c)
      loc == [NoLocal EXCEPT !.op = "confirm", !.user = u, !.id = t,
                             !.startStatus = IF t = "-" THEN "-" ELSE barterTransactions[t].Status,
                             !.isOwner = (u = chat.OwnerID)]
  IN /\ StartCall(p)
     /\ IF ~IsBarterParticipant(chat, u)
        THEN Return(p, loc, "ErrUnauthorizedBarterAccess")
        ELSE IF t = "-"
        THEN Return(p, loc, "ErrBarterTransactionNotFound")
        ELSE IF barterTransactions[t].Status = "Completed"
        THEN Return(p, loc, "ErrBarterAlreadyCompleted")
        ELSE Goto(p, "cbtUpdate", loc)
     /\ UNCHANGED <<barterMessages, storeVars, coinTransactions, now, otherVars, finalizeCount, okConfirm, failures>>

\* ------------------------------- confirmCompletion: ConfirmBarterTransaction
\* Updates(fields): set the caller's flag.
CbtUpdate(p) ==
  /\ pc[p] = "cbtUpdate"
  /\ barterTransactions' = [barterTransactions EXCEPT ![local[p].id] =
       ApplyConfirmFields(@, ConfirmFields(local[p].isOwner))]
  /\ Goto(p, "cbtFirst", local[p])
  /\ UNCHANGED <<barterMessages, barterItems, barterChats, barterTransactionItems, coinTransactions,
                 now, otherVars, finalizeCount, okConfirm, failures, calls>>

\* First(&transaction), then the test of both flags on the row just read.
CbtFirst(p) ==
  /\ pc[p] = "cbtFirst"
  /\ LET transaction == barterTransactions[local[p].id]
     IN IF transaction.OwnerConfirmed /\ transaction.OffererConfirmed
        THEN /\ Goto(p, "cbtStatus", [local[p] EXCEPT !.transaction = transaction])
             /\ UNCHANGED okConfirm
        ELSE ConfirmReturnsNil(p)
  /\ UNCHANGED <<barterMessages, storeVars, coinTransactions, now, otherVars, finalizeCount, failures, calls>>

\* Updates(status, completed_at): the finalize block starts.
CbtStatus(p) ==
  /\ pc[p] = "cbtStatus"
  /\ barterTransactions' = [barterTransactions EXCEPT ![local[p].id] =
       FinalizeFields(@, now)]
  /\ finalizeCount' = [finalizeCount EXCEPT ![local[p].id] = @ + 1]
  /\ Goto(p, "cbtChat", local[p])
  /\ UNCHANGED <<barterMessages, barterItems, barterChats, barterTransactionItems, coinTransactions,
                 now, otherVars, okConfirm, failures, calls>>

\* UpdateBarterChatStatus(transaction.ChatID, "Completed")
CbtChat(p) ==
  /\ pc[p] = "cbtChat"
  /\ barterChats' = UpdateBarterChatStatus(barterChats, local[p].transaction.ChatID, "Completed")
  /\ Goto(p, "cbtItems", local[p])
  /\ UNCHANGED <<barterMessages, barterItems, barterTransactions, barterTransactionItems, coinTransactions,
                 now, otherVars, finalizeCount, okConfirm, failures, calls>>

\* GetBarterTransactionItems(transactionID), in whatever order the store returns them.
CbtItems(p) ==
  /\ pc[p] = "cbtItems"
  /\ \E items \in Orderings(GetBarterTransactionItems(local[p].id)) :
       IF items = <<>>
       THEN ConfirmReturnsNil(p)
       ELSE /\ Goto(p, "cbtItem", [local[p] EXCEPT !.items = items])
            /\ UNCHANGED okConfirm
  /\ UNCHANGED <<barterMessages, storeVars, coinTransactions, now, otherVars, finalizeCount, failures, calls>>

\* One turn of the loop: UpdateBarterItemStatus(item.BarterItem.ID, "Completed").
CbtItem(p) ==
  /\ pc[p] = "cbtItem"
  /\ barterItems' = UpdateBarterItemStatus(barterItems, Head(local[p].items), "Completed")
  /\ IF Tail(local[p].items) = <<>>
     THEN ConfirmReturnsNil(p)
     ELSE /\ Goto(p, "cbtItem", [local[p] EXCEPT !.items = Tail(@)])
          /\ UNCHANGED okConfirm
  /\ UNCHANGED <<barterMessages, barterChats, barterTransactions, barterTransactionItems, coinTransactions,
                 now, otherVars, finalizeCount, failures, calls>>

\* Any statement of a request in progress may return an error; every caller
\* returns that error at once and undoes nothing.
StoreError(p) ==
  /\ pc[p] # "idle"
  /\ failures < MaxFailures
  /\ failures' = failures + 1
  /\ Return(p, local[p], "ErrStore")
  /\ UNCHANGED <<barterMessages, storeVars, coinTransactions, now, otherVars, finalizeCount, okConfirm, calls>>

\* time.Now() advances.
Tick ==
  /\ now < MaxClock
  /\ now' = now + 1
  /\ UNCHANGED <<barterMessages, storeVars, coinTransactions, pc, local, finalizeCount, okConfirm, failures, calls, otherVars>>

\* ------------------------------------------------------------ item catalog
\* UpdateBarterItem of the service: ownership check on the row read, then
\* the patch applied to that row.
UpdateBarterItem(p, u, id, quantity) ==
  LET item == barterItems[id]
      loc == [NoLocal EXCEPT !.op = "updateItem", !.user = u, !.id = id]
  IN /\ StartCall(p)
     /\ IF item.UserID # u
        THEN Return(p, loc, "ErrUnauthorizedBarterAccess")
        ELSE Goto(p, "uiSave", [loc EXCEPT !.item = [item EXCEPT !.Quantity = quantity]])
     /\ UNCHANGED <<barterMessages, storeVars, coinTransactions, now, otherVars, finalizeCount, okConfirm, failures>>

\* UpdateBarterItem of the repository: Save(item) writes every column of the row.
UiSave(p) ==
  /\ pc[p] = "uiSave"
  /\ barterItems' = [barterItems EXCEPT ![local[p].id] = local[p].item]
  /\ Return(p, local[p], "nil")
  /\ UNCHANGED <<barterMessages, barterChats, barterTransactions, barterTransactionItems, coinTransactions,
                 now, otherVars, finalizeCount, okConfirm, failures, calls>>

\* UpdateBarterItemStatus called on its own: one statement, any status.
SetStatus(id, status) ==
  /\ barterItems' = UpdateBarterItemStatus(barterItems, id, status)
  /\ barterItems' # barterItems
  /\ UNCHANGED <<barterMessages, barterChats, barterTransactions, barterTransactionItems, coinTransactions,
                 now, otherVars, pc, local, finalizeCount, okConfirm, failures, calls>>

\* ------------------------------------------------------------- coin service
\* UseCoins up to its write: cost of the feature, amount override, balance check.
UseCoins(p, u, feature, amount) ==
  LET coinCost == IF amount > 0 THEN amount ELSE FeatureCost(feature)
      currentBalance == GetUserBalance(u)
      loc == [NoLocal EXCEPT !.op = "useCoins", !.user = u]
  IN /\ StartCall(p)
     /\ IF FeatureCost(feature) = 0
        THEN Return(p, loc, "ErrInvalidFeature")
        ELSE IF currentBalance < coinCost
        THEN Return(p, loc, "ErrInsufficientCoins")
        ELSE Goto(p, "ucCreate", [loc EXCEPT !.amount = coinCost, !.balance = currentBalance])
     /\ UNCHANGED <<barterMessages, storeVars, coinTransactions, now, otherVars, finalizeCount, okConfirm, failures>>

\* CreateCoinTransaction of the "Use" row.
UcCreate(p) ==
  /\ pc[p] = "ucCreate"
  /\ Len(coinTransactions) < MaxCoinTxs
  /\ coinTransactions' = Append(coinTransactions,
       [UserID |-> local[p].user, Amount |-> 0 - local[p].amount, Type |-> "Use",
        Balance |-> local[p].balance - local[p].amount])
  /\ Return(p, local[p], "nil")
  /\ UNCHANGED <<barterMessages, storeVars, now, otherVars, finalizeCount, okConfirm, failures, calls>>

\* RewardCoins up to its write.
RewardCoins(p, u, amount) ==
  LET loc == [NoLocal EXCEPT !.op = "rewardCoins", !.user = u]
  IN /\ StartCall(p)
     /\ Goto(p, "rcCreate", [loc EXCEPT !.amount = amount, !.balance = GetUserBalance(u)])
     /\ UNCHANGED <<barterMessages, storeVars, coinTransactions, now, otherVars, finalizeCount, okConfirm, failures>>

\* CreateCoinTransaction of the "Reward" row.
RcCreate(p) ==
  /\ pc[p] = "rcCreate"
  /\ Len(coinTransactions) < MaxCoinTxs
  /\ coinTransactions' = Append(coinTransactions,
       [UserID |-> local[p].user, Amount |-> local[p].amount, Type |-> "Reward",
        Balance |-> local[p].balance + local[p].amount])
  /\ Return(p, local[p], "nil")
  /\ UNCHANGED <<barterMessages, storeVars, now, otherVars, finalizeCount, okConfirm, failures, calls>>

\* ----------------------------------------------------- negotiation channel
\* A return that keeps the request's target for the caller to see.
ReturnWith(p, loc, res) ==
  /\ pc' = [pc EXCEPT ![p] = "idle"]
  /\ local' = [local EXCEPT ![p] =
       [NoLocal EXCEPT !.op = loc.op, !.user = loc.user, !.id = loc.id,
                       !.startStatus = loc.startStatus, !.result = res]]

\* The lookup with offerer and owner compared against each other's column.
GetBarterChatByItemAndUsersSwapped(itemID, offererID, ownerID) ==
  LET found == {c \in DOMAIN barterChats :
                  /\ barterChats[c].BarterItemID = itemID
                  /\ barterChats[c].OffererID = ownerID
                  /\ barterChats[c].OwnerID = offererID}
  IN IF found = {} THEN "-" ELSE CHOOSE c \in found : TRUE

\* GetBarterChatByItemAndUsers: First() of the rows of the triple, "-" for (nil, nil).
GetBarterChatByItemAndUsers(itemID, offererID, ownerID) ==
  LET found == {c \in DOMAIN barterChats :
                  /\ barterChats[c].BarterItemID = itemID
                  /\ barterChats[c].OffererID = offererID
                  /\ barterChats[c].OwnerID = ownerID}
  IN IF found = {} THEN "-" ELSE CHOOSE c \in found : TRUE

\* The chats of a triple, as the rows stand.
ChatsOfTriple(itemID, offererID, ownerID) ==
  {c \in DOMAIN barterChats :
     barterChats[c] = [barterChats[c] EXCEPT !.BarterItemID = itemID,
                                             !.OffererID = offererID, !.OwnerID = ownerID]}

\* AddBarterMessage: Create(message), unread.
AddBarterMessage(rows, chatID, senderID) ==
  Append(rows, [ChatID |-> chatID, SenderID |-> senderID, IsRead |-> FALSE])

\* ExpressBarterInterest without the test of the item's owner.
ExpressBarterInterestAnyone(p, u, i) ==
  LET owner == barterItems[i].UserID
      chat == GetBarterChatByItemAndUsers(i, u, owner)
      loc == [NoLocal EXCEPT !.op = "express", !.user = u, !.id = i,
                             !.startStatus = IF ChatsOfTriple(i, u, owner) = {}
                                             THEN "Absent" ELSE "Exists"]
  IN /\ StartCall(p)
     /\ IF chat # "-"
        THEN ReturnWith(p, loc, chat)
        ELSE Goto(p, "ebiCreateChat", loc)
     /\ UNCHANGED <<barterMessages, storeVars, coinTransactions, now, otherVars, finalizeCount, okConfirm, failures>>

\* ExpressBarterInterest up to its first write: the item's owner,
\* SelfTransaction for the owner, then the lookup of the triple's chat.
ExpressBarterInterest(p, u, i) ==
  LET owner == barterItems[i].UserID
      chat == GetBarterChatByItemAndUsers(i, u, owner)
      loc == [NoLocal EXCEPT !.op = "express", !.user = u, !.id = i,
                             !.startStatus = IF ChatsOfTriple(i, u, owner) = {}
                                             THEN "Absent" ELSE "Exists"]
  IN /\ StartCall(p)
     /\ IF u = owner
        THEN ReturnWith(p, loc, "ErrBarterSelfTransaction")
        ELSE IF chat # "-"
        THEN ReturnWith(p, loc, chat)
        ELSE Goto(p, "ebiCreateChat", loc)
     /\ UNCHANGED <<barterMessages, storeVars, coinTransactions, now, otherVars, finalizeCount, okConfirm, failures>>

\* CreateBarterChat: Create(chat) of a new Active chat under a fresh id.
EbiCreateChat(p) ==
  /\ pc[p] = "ebiCreateChat"
  /\ Cardinality(DOMAIN barterChats) < MaxChats
  /\ LET id == CHOOSE c \in ChatIds : c \notin DOMAIN barterChats
         row == [BarterItemID |-> local[p].id, OffererID |-> local[p].user,
                 OwnerID |-> barterItems[local[p].id].UserID, Status |-> "Active",
                 LastMessageTime |-> now]
     IN /\ barterChats' = [c \in DOMAIN barterChats \cup {id} |->
                             IF c = id THEN row ELSE barterChats[c]]
        /\ Goto(p, "ebiAddMessage", [local[p] EXCEPT !.chat = id])
  /\ UNCHANGED <<barterItems, barterTransactions, barterTransactionItems, barterMessages,
                 coinTransactions, now, otherVars, finalizeCount, okConfirm, failures, calls>>

\* AddBarterMessage of the initial message; the new chat is returned.
EbiAddMessage(p) ==
  /\ pc[p] = "ebiAddMessage"
  /\ Len(barterMessages) < MaxMessages
  /\ barterMessages' = AddBarterMessage(barterMessages, local[p].chat, local[p].user)
  /\ ReturnWith(p, local[p], local[p].chat)
  /\ UNCHANGED <<storeVars, coinTransactions, now, otherVars, finalizeCount, okConfirm, failures, calls>>

\* ------------------------------------------------------------- messages
\* The update with the sender test reversed: the viewer's own messages are flipped.
MarkMessagesAsReadOwn(rows, chatID, userID) ==
  [k \in 1..Len(rows) |->
     IF rows[k].ChatID = chatID /\ rows[k].SenderID = userID /\ rows[k].IsRead = FALSE
     THEN [rows[k] EXCEPT !.IsRead = TRUE] ELSE rows[k]]

\* MarkMessagesAsRead: Update("is_read", true) where chat_id = ? AND sender_id != ? AND is_read = false.
MarkMessagesAsRead(rows, chatID, userID) ==
  [k \in 1..Len(rows) |->
     IF rows[k].ChatID = chatID /\ rows[k].SenderID # userID /\ rows[k].IsRead = FALSE
     THEN [rows[k] EXCEPT !.IsRead = TRUE] ELSE rows[k]]

\* GetUnreadMessageCount: Count() where chat_id = ? AND sender_id != ? AND is_read = false,
\* one row after the other.
RECURSIVE CountUnread(_, _, _, _)
CountUnread(rows, k, chatID, userID) ==
  IF k = 0 THEN 0
  ELSE CountUnread(rows, k - 1, chatID, userID)
         + (IF rows[k].ChatID = chatID /\ rows[k].SenderID # userID /\ rows[k].IsRead = FALSE
            THEN 1 ELSE 0)

GetUnreadMessageCount(chatID, userID) ==
  CountUnread(barterMessages, Len(barterMessages), chatID, userID)

\* UpdateLastMessageTime: Update("last_message_time", time) where id = ?.
UpdateLastMessageTime(rows, chatID, time) ==
  [rows EXCEPT ![chatID].LastMessageTime = time]

\* The viewer's read with the chat left out of the update's condition.
MarkReadAllChats(p, v, c) ==
  /\ StartCall(p)
  /\ barterMessages' = [k \in 1..Len(barterMessages) |->
       IF barterMessages[k].SenderID # v /\ barterMessages[k].IsRead = FALSE
       THEN [barterMessages[k] EXCEPT !.IsRead = TRUE] ELSE barterMessages[k]]
  /\ ReturnWith(p, [NoLocal EXCEPT !.op = "markRead", !.user = v, !.id = c], "nil")
  /\ UNCHANGED <<storeVars, coinTransactions, now, otherVars, finalizeCount, okConfirm, failures>>

\* The viewer's read of a chat: one MarkMessagesAsRead statement.
MarkRead(p, v, c) ==
  /\ StartCall(p)
  /\ barterMessages' = MarkMessagesAsRead(barterMessages, c, v)
  /\ ReturnWith(p, [NoLocal EXCEPT !.op = "markRead", !.user = v, !.id = c], "nil")
  /\ UNCHANGED <<storeVars, coinTransactions, now, otherVars, finalizeCount, okConfirm, failures>>

\* SendBarterMessage up to its first write: Unauthorized for a non-participant,
\* InvalidBarterStatus when the chat is not Active.
SendBarterMessage(p, u, c) ==
  LET chat == barterChats[c]
      loc == [NoLocal EXCEPT !.op = "send", !.user = u, !.id = c, !.chat = c,
                             !.startStatus = chat.Status]
  IN /\ StartCall(p)
     /\ IF ~IsBarterParticipant(chat, u)
        THEN ReturnWith(p, loc, "ErrUnauthorizedBarterAccess")
        ELSE IF chat.Status # "Active"
        THEN ReturnWith(p, loc, "ErrInvalidBarterStatus")
        ELSE Goto(p, "sbmAdd", loc)
     /\ UNCHANGED <<barterMessages, storeVars, coinTransactions, now, otherVars, finalizeCount, okConfirm, failures>>

\* AddBarterMessage of the sender's message.
SbmAdd(p) ==
  /\ pc[p] = "sbmAdd"
  /\ Len(barterMessages) < MaxMessages
  /\ barterMessages' = AddBarterMessage(barterMessages, local[p].chat, local[p].user)
  /\ Goto(p, "sbmTime", local[p])
  /\ UNCHANGED <<storeVars, coinTransactions, now, otherVars, finalizeCount, okConfirm, failures, calls>>

\* UpdateLastMessageTime of the chat; the message is returned.
SbmTime(p) ==
  /\ pc[p] = "sbmTime"
  /\ barterChats' = UpdateLastMessageTime(barterChats, local[p].chat, now)
  /\ ReturnWith(p, local[p], "nil")
  /\ UNCHANGED <<barterItems, barterTransactions, barterTransactionItems, barterMessages,
                 coinTransactions, now, otherVars, finalizeCount, okConfirm, failures, calls>>

\* ------------------------------------------------------------ proposals
\* The validation with the offerer's list left unexamined.
BarterItemsValidOwnerOnly(chat, ownerItemIds, offererItemIds) ==
  \A i \in ownerItemIds :
    barterItems[i].UserID = chat.OwnerID /\ barterItems[i].Status = "Available"

\* Every ownerItemId is an Available item of the chat's owner and every
\* offererItemId an Available item of its offerer.
BarterItemsValid(chat, ownerItemIds, offererItemIds) ==
  /\ \A i \in ownerItemIds :
       barterItems[i].UserID = chat.OwnerID /\ barterItems[i].Status = "Available"
  /\ \A i \in offererItemIds :
       barterItems[i].UserID = chat.OffererID /\ barterItems[i].Status = "Available"

\* The ids of a request list, in the request's order.
SeqOf(S) == CHOOSE s \in Orderings(S) : TRUE

\* CompleteBarterTransaction up to its first write: participant, Active chat,
\* the chat's transaction when there is one, then the items of both lists.
CompleteBarterTransaction(p, u, c, ownerItemIds, offererItemIds) ==
  LET chat == barterChats[c]
      t == GetBarterTransactionByChat(c)
      wrong == {i \in ownerItemIds : barterItems[i].UserID # chat.OwnerID}
                 \cup {i \in offererItemIds : barterItems[i].UserID # chat.OffererID}
                 \cup {i \in ownerItemIds \cup offererItemIds : barterItems[i].Status # "Available"}
      loc == [NoLocal EXCEPT !.op = "propose", !.user = u, !.chat = c,
                             !.startStatus = IF chat.Status = "Active" /\ wrong = {}
                                             THEN "Valid" ELSE "Invalid",
                             !.ownerItemIds = ownerItemIds,
                             !.items = SeqOf(ownerItemIds) \o SeqOf(offererItemIds)]
  IN /\ StartCall(p)
     /\ IF ~IsBarterParticipant(chat, u)
        THEN ReturnWith(p, loc, "ErrUnauthorizedBarterAccess")
        ELSE IF chat.Status # "Active"
        THEN ReturnWith(p, loc, "ErrInvalidBarterStatus")
        ELSE IF t # "-"
        THEN ReturnWith(p, [loc EXCEPT !.id = t], t)
        ELSE IF ~BarterItemsValid(chat, ownerItemIds, offererItemIds)
        THEN ReturnWith(p, loc, "ErrItemAlreadyBartered")
        ELSE Goto(p, "cbCreate", loc)
     /\ UNCHANGED <<barterMessages, storeVars, coinTransactions, now, otherVars, finalizeCount, okConfirm, failures>>

\* CreateBarterTransaction: Create(transaction), Pending with both flags false.
CbCreate(p) ==
  /\ pc[p] = "cbCreate"
  /\ Cardinality(DOMAIN barterTransactions) < MaxTxs
  /\ LET id == CHOOSE t \in TxIds : t \notin DOMAIN barterTransactions
         row == [ChatID |-> local[p].chat, OwnerConfirmed |-> FALSE, OffererConfirmed |-> FALSE,
                 Status |-> "Pending", CoinsCharged |-> 0, CompletedAt |-> 0]
     IN /\ barterTransactions' = [t \in DOMAIN barterTransactions \cup {id} |->
                                    IF t = id THEN row ELSE barterTransactions[t]]
        /\ Goto(p, "cbAddItem", [local[p] EXCEPT !.id = id])
  /\ UNCHANGED <<barterItems, barterChats, barterTransactionItems, barterMessages,
                 coinTransactions, now, otherVars, finalizeCount, okConfirm, failures, calls>>

\* AddBarterTransactionItem: Create(item) for the next id, tagged by its list.
CbAddItem(p) ==
  /\ pc[p] = "cbAddItem"
  /\ barterTransactionItems' = barterTransactionItems \cup
       {[TransactionID |-> local[p].id, BarterItemID |-> Head(local[p].items),
         OwnerItem |-> Head(local[p].items) \in local[p].ownerItemIds]}
  /\ IF Tail(local[p].items) = <<>>
     THEN ReturnWith(p, local[p], local[p].id)
     ELSE Goto(p, "cbAddItem", [local[p] EXCEPT !.items = Tail(@)])
  /\ UNCHANGED <<barterItems, barterChats, barterTransactions, barterMessages,
                 coinTransactions, now, otherVars, finalizeCount, okConfirm, failures, calls>>

\* ----------------------------------------------------------- statistics
\* GetBarterStatistics: the three Count() queries and the product.
GetBarterStatistics(userID) ==
  LET bartersInitiated ==
        Cardinality({c \in DOMAIN barterChats : barterChats[c].OffererID = userID})
      bartersCompleted ==
        Cardinality({c \in DOMAIN barterChats :
                       /\ barterChats[c].OffererID = userID \/ barterChats[c].OwnerID = userID
                       /\ barterChats[c].Status = "Completed"})
      itemsTraded ==
        Cardinality({ti \in barterTransactionItems :
                       /\ ti.TransactionID \in DOMAIN barterTransactions
                       /\ barterTransactions[ti.TransactionID].ChatID \in DOMAIN barterChats
                       /\ LET chat == barterChats[barterTransactions[ti.TransactionID].ChatID]
                          IN chat.OffererID = userID \/ chat.OwnerID = userID
                       /\ barterTransactions[ti.TransactionID].Status = "Completed"})
  IN [total_barters_initiated |-> bartersInitiated,
      total_barters_completed |-> bartersCompleted,
      total_items_traded |-> itemsTraded,
      total_coins_spent |-> bartersCompleted * BARTER_TRANSACTION_COIN_COST]

\* -------------------------------------------------------------- listings
\* UploadFile's object key for an item's image.
ImageKey(id) == [folder |-> "barters", name |-> id]

\* CreateBarterItem up to its first write: the request's validation
\* (Quantity min=1), then time.Parse of the expiry date.
CreateBarterItem(p, u, expiryParses, quantity, image, lat, lng) ==
  LET barterItemID == NewItemIds[calls + 1]
      loc == [NoLocal EXCEPT !.op = "createItem", !.user = u, !.id = barterItemID,
                             !.startStatus = IF expiryParses /\ quantity > 0
                                             THEN "Valid" ELSE "Invalid",
                             !.amount = quantity, !.image = image, !.lat = lat, !.lng = lng]
  IN /\ StartCall(p)
     /\ IF quantity < 1
        THEN ReturnWith(p, loc, "ErrValidation")
        ELSE IF ~expiryParses
        THEN ReturnWith(p, loc, "ErrParseTime")
        ELSE IF image
        THEN Goto(p, "cbiUpload", loc)
        ELSE Goto(p, "cbiCreate", loc)
     /\ UNCHANGED <<barterMessages, storeVars, coinTransactions, now, otherVars, finalizeCount,
                    okConfirm, failures>>

\* s3.UploadFile of the image.
CbiUpload(p) ==
  /\ pc[p] = "cbiUpload"
  /\ s3Objects' = s3Objects \cup {ImageKey(local[p].id)}
  /\ Goto(p, "cbiCreate", [local[p] EXCEPT !.imageURL = local[p].id])
  /\ UNCHANGED <<barterMessages, storeVars, coinTransactions, now, finalizeCount, okConfirm,
                 failures, calls, barterItemLocations, donations, donationItems, receiptScans,
                 scanWorker, foodItems>>

\* barterRepository.CreateBarterItem: Create(item), Available, at lat/lng.
CbiCreate(p) ==
  /\ pc[p] = "cbiCreate"
  /\ Cardinality(DOMAIN barterItems) < MaxItems
  /\ barterItems' = [i \in DOMAIN barterItems \cup {local[p].id} |->
       IF i = local[p].id
       THEN [UserID |-> local[p].user, Status |-> "Available", Quantity |-> local[p].amount]
       ELSE barterItems[i]]
  /\ barterItemLocations' = [i \in DOMAIN barterItems \cup {local[p].id} |->
       IF i = local[p].id THEN <<local[p].lat, local[p].lng>> ELSE barterItemLocations[i]]
  /\ ReturnWith(p, local[p], local[p].id)
  /\ UNCHANGED <<barterMessages, barterChats, barterTransactions, barterTransactionItems,
                 coinTransactions, now, finalizeCount, okConfirm, failures, calls, s3Objects,
                 donations, donationItems, receiptScans, scanWorker, foodItems>>

\* --------------------------------------------------------- nearby search
\* Places are points of a plane with one kilometre between neighbours, and
\* distances are compared by their squares.
Abs(n) == IF n < 0 THEN -n ELSE n

\* earth_distance(ll_to_earth(lat, lng), ll_to_earth(latitude, longitude)), squared.
EarthDistance2(from, to) ==
  (to[1] - from[1]) * (to[1] - from[1]) + (to[2] - from[2]) * (to[2] - from[2])

\* earth_box(ll_to_earth(lat, lng), radius) @> ll_to_earth(latitude, longitude):
\* the point lies in the cube whose sides are radius away from the centre.
EarthBoxContains(from, radius, to) ==
  /\ Abs(to[1] - from[1]) <= radius
  /\ Abs(to[2] - from[2]) <= radius

\* The WHERE clause of the query: the box, the status (Available unless one
\* other than All is given), the requester's own items left out unless asked for.
NearbyRows(lat, lng, radius, userID, includeOwn, status) ==
  {i \in DOMAIN barterItems :
     /\ EarthBoxContains(<<lat, lng>>, radius, barterItemLocations[i])
     /\ barterItems[i].Status = (IF status # "All" /\ status # "" THEN status ELSE "Available")
     /\ (~includeOwn => barterItems[i].UserID # userID)}

\* ORDER BY distance ASC: the orders of the rows in which no row comes
\* before a nearer one.
RECURSIVE OrderByDistance(_, _)
OrderByDistance(from, rows) ==
  IF rows = {} THEN {<<>>}
  ELSE UNION {{<<i>> \o rest : rest \in OrderByDistance(from, rows \ {i})} :
              i \in {j \in rows : \A k \in rows :
                       EarthDistance2(from, barterItemLocations[j])
                         <= EarthDistance2(from, barterItemLocations[k])}}

\* GetNearbyBarterItems: one statement, the result kept with the request.
GetNearbyBarterItems(p, lat, lng, radius, userID, includeOwn, status) ==
  /\ StartCall(p)
  /\ \E result \in OrderByDistance(<<lat, lng>>,
                     NearbyRows(lat, lng, radius, userID, includeOwn, status)) :
       /\ pc' = [pc EXCEPT ![p] = "idle"]
       /\ local' = [local EXCEPT ![p] =
            [NoLocal EXCEPT !.op = "findNearby", !.user = userID, !.lat = lat, !.lng = lng,
                            !.amount = radius, !.isOwner = includeOwn, !.status = status,
                            !.items = result, !.result = "ok"]]
  /\ UNCHANGED <<barterMessages, storeVars, coinTransactions, now, otherVars, finalizeCount,
                 okConfirm, failures>>

\* --------------------------------------------------------------- donations
\* GetDonationItems: the rows of donation_items of one donation.
GetDonationItems(donationID) == {row \in donationItems : row.DonationID = donationID}

\* donationRepository.UpdateDonationStatus: Updates() of status, and of
\* completed_at when a time is given or the status is Completed.
RepoUpdateDonationStatus(rows, id, status, completedAt, t) ==
  [rows EXCEPT ![id] =
     [@ EXCEPT !.Status = status,
               !.CompletedAt = IF completedAt # 0 THEN completedAt
                               ELSE IF status = "Completed" THEN t
                               ELSE @]]

\* UpdateDonationStatus up to its decision: the donation is read, the
\* caller and the requested status are checked.
UpdateDonationStatus(p, userID, donationID, status) ==
  LET loc == [NoLocal EXCEPT !.op = "updateDonationStatus", !.user = userID,
                             !.id = donationID, !.status = status,
                             !.startStatus = IF donationID \in DOMAIN donations
                                             THEN donations[donationID].Status ELSE "-"]
  IN /\ StartCall(p)
     /\ IF donationID \notin DOMAIN donations
        THEN ReturnWith(p, loc, "ErrDonationNotFound")
        ELSE IF donations[donationID].UserID # userID
        THEN ReturnWith(p, loc, "ErrUnauthorizedDonationAccess")
        ELSE IF status \notin {"Pending", "Accepted", "Completed", "Cancelled"}
        THEN ReturnWith(p, loc, "ErrInvalidDonationStatus")
        ELSE IF status = "Completed" /\ donations[donationID].Status # "Completed"
        THEN Goto(p, "udsItems", [loc EXCEPT !.completedAt = now])
        ELSE Goto(p, "udsUpdate", loc)
     /\ UNCHANGED <<barterMessages, storeVars, coinTransactions, now, otherVars, finalizeCount,
                    okConfirm, failures>>

\* The items are read and the reward is computed into the copy in memory.
UdsItems(p) ==
  /\ pc[p] = "udsItems"
  /\ Goto(p, "udsUpdate",
          [local[p] EXCEPT !.amount =
             Cardinality(GetDonationItems(local[p].id)) * COINS_PER_DONATION_ITEM])
  /\ UNCHANGED <<barterMessages, storeVars, coinTransactions, now, otherVars, finalizeCount,
                 okConfirm, failures, calls>>

\* The repository's update, and the return of nil.
UdsUpdate(p) ==
  /\ pc[p] = "udsUpdate"
  /\ donations' = RepoUpdateDonationStatus(donations, local[p].id, local[p].status,
                                           local[p].completedAt, now)
  /\ pc' = [pc EXCEPT ![p] = "idle"]
  /\ local' = [local EXCEPT ![p] =
       [NoLocal EXCEPT !.op = local[p].op, !.user = local[p].user, !.id = local[p].id,
                       !.startStatus = local[p].startStatus, !.status = local[p].status,
                       !.amount = local[p].amount, !.result = "nil"]]
  /\ UNCHANGED <<barterMessages, storeVars, coinTransactions, now, finalizeCount, okConfirm,
                 failures, calls, s3Objects, barterItemLocations, donationItems, receiptScans,
                 scanWorker, foodItems>>

\* ----------------------------------------------------------- receipt scans
\* UploadFile's object key for a receipt.
ReceiptKey(id) == [folder |-> "receipts", name |-> id]

\* foodRepository.CreateReceiptScan: the row is inserted.
CreateReceiptScan(rows, id, scan) ==
  [s \in DOMAIN rows \cup {id} |-> IF s = id THEN scan ELSE rows[s]]

\* foodRepository.UpdateReceiptScan: the row of the scan is saved as given.
UpdateReceiptScan(rows, id, scan) == [rows EXCEPT ![id] = scan]

\* The statements of the goroutine up to its update, in order: each has an
\* error branch of its own.
ScanStages == <<"config", "open", "read", "form", "write", "close", "request", "send",
                "status", "decode", "items">>

StageIndex(stage) == CHOOSE n \in DOMAIN ScanStages : ScanStages[n] = stage

\* One statement of the goroutine on its receiptScan: on an error Status is
\* Failed and the update comes next, after the last statement Status is Processed
\* and the update comes next, otherwise the next statement comes next.
StageResultSkipsUpdate(worker, ok) ==
  IF ~ok
  THEN (IF worker.pc = "send" THEN [pc |-> "done", Status |-> worker.Status]
        ELSE [pc |-> "update", Status |-> "Failed"])
  ELSE IF StageIndex(worker.pc) = Len(ScanStages)
  THEN [pc |-> "update", Status |-> "Processed"]
  ELSE [pc |-> ScanStages[StageIndex(worker.pc) + 1], Status |-> worker.Status]

StageResult(worker, ok) ==
  IF ~ok
  THEN [pc |-> "update", Status |-> "Failed"]
  ELSE IF StageIndex(worker.pc) = Len(ScanStages)
  THEN [pc |-> "update", Status |-> "Processed"]
  ELSE [pc |-> ScanStages[StageIndex(worker.pc) + 1], Status |-> worker.Status]

\* The scan ids in use: those of the rows, of the objects and of the
\* uploads in progress.
UsedScanIds ==
  DOMAIN receiptScans \cup {k.name : k \in {o \in s3Objects : o.folder = "receipts"}}
    \cup {local[p].id : p \in {q \in Procs : pc[q] \in {"urUpload", "urCreate"}}}

\* uuid.New(): an id that is not in use.
NewScanId ==
  NewScanIds[CHOOSE n \in DOMAIN NewScanIds :
               /\ NewScanIds[n] \notin UsedScanIds
               /\ \A m \in 1..(n - 1) : NewScanIds[m] \in UsedScanIds]

\* UploadReceipt up to the upload: uuid.Parse(userID), uuid.New().
UploadReceipt(p, userID) ==
  LET loc == [NoLocal EXCEPT !.op = "uploadReceipt", !.user = userID, !.id = NewScanId]
  IN /\ StartCall(p)
     /\ Cardinality(UsedScanIds) < MaxScans
     /\ IF userID \notin Users
        THEN Return(p, loc, "ErrParseUUID")
        ELSE Goto(p, "urUpload", loc)
     /\ UNCHANGED <<barterMessages, storeVars, coinTransactions, now, otherVars, finalizeCount,
                    okConfirm, failures>>

\* s3.UploadFile of the receipt image.
UrUpload(p, ok) ==
  /\ pc[p] = "urUpload"
  /\ IF ok
     THEN /\ s3Objects' = s3Objects \cup {ReceiptKey(local[p].id)}
          /\ Goto(p, "urCreate", [local[p] EXCEPT !.imageURL = local[p].id])
     ELSE /\ s3Objects' = s3Objects
          /\ Return(p, local[p], "ErrUpload")
  /\ UNCHANGED <<barterMessages, storeVars, coinTransactions, now, finalizeCount, okConfirm,
                 failures, calls, barterItemLocations, donations, donationItems, receiptScans,
                 scanWorker, foodItems>>

\* CreateReceiptScan with Status Pending; on its error the object is deleted
\* and the error returned, otherwise the goroutine is started and the
\* response with Status Pending returned.
UrCreate(p, ok) ==
  /\ pc[p] = "urCreate"
  /\ IF ok
     THEN /\ receiptScans' = CreateReceiptScan(receiptScans, local[p].id,
                                [UserID |-> local[p].user, Status |-> "Pending"])
          /\ scanWorker' = [s \in DOMAIN scanWorker \cup {local[p].id} |->
               IF s = local[p].id THEN [pc |-> ScanStages[1], Status |-> "Pending"]
               ELSE scanWorker[s]]
          /\ s3Objects' = s3Objects
          /\ ReturnWith(p, local[p], "Pending")
     ELSE /\ s3Objects' = s3Objects \ {ReceiptKey(local[p].id)}
          /\ UNCHANGED <<receiptScans, scanWorker>>
          /\ Return(p, local[p], "ErrCreate")
  /\ UNCHANGED <<barterMessages, storeVars, coinTransactions, now, finalizeCount, okConfirm,
                 failures, calls, barterItemLocations, donations, donationItems, foodItems>>

\* One statement of the goroutine of scan s before its update.
ScanStep(s, ok) ==
  /\ s \in DOMAIN scanWorker
  /\ scanWorker[s].pc \in {ScanStages[n] : n \in DOMAIN ScanStages}
  /\ scanWorker' = [scanWorker EXCEPT ![s] = StageResult(@, ok)]
  /\ UNCHANGED <<barterMessages, storeVars, coinTransactions, now, pc, local, finalizeCount,
                 okConfirm, failures, calls, s3Objects, barterItemLocations, donations,
                 donationItems, receiptScans, foodItems>>

\* UpdateReceiptScan(context.Background(), receiptScan) of the goroutine: the
\* row takes the goroutine's Status, or the update returns an error, which
\* the goroutine drops.
ScanUpdate(s, ok) ==
  /\ s \in DOMAIN scanWorker
  /\ scanWorker[s].pc = "update"
  /\ IF ok
     THEN /\ receiptScans' = UpdateReceiptScan(receiptScans, s,
                                [receiptScans[s] EXCEPT !.Status = scanWorker[s].Status])
          /\ scanWorker' = [scanWorker EXCEPT ![s].pc = "done"]
     ELSE /\ receiptScans' = receiptScans
          /\ scanWorker' = [scanWorker EXCEPT ![s].pc = "updateFailed"]
  /\ UNCHANGED <<barterMessages, storeVars, coinTransactions, now, pc, local, finalizeCount,
                 okConfirm, failures, calls, s3Objects, barterItemLocations, donations,
                 donationItems, foodItems>>

\* SaveScannedItems up to its loop: the scan is read and its user compared.
SaveScannedItems(p, userID, scanID, expiryParses, count) ==
  LET loc == [NoLocal EXCEPT !.op = "saveScannedItems", !.user = userID, !.id = scanID,
                             !.startStatus = IF expiryParses THEN "Valid" ELSE "Invalid",
                             !.amount = count]
  IN /\ StartCall(p)
     /\ IF scanID \notin DOMAIN receiptScans
        THEN Return(p, loc, "ErrInvalidReceiptScan")
        ELSE IF receiptScans[scanID].UserID # userID
        THEN Return(p, loc, "ErrUnauthorizedAccess")
        ELSE Goto(p, IF count > 0 THEN "ssiAdd" ELSE "ssiUpdate",
                  [loc EXCEPT !.scan = receiptScans[scanID]])
     /\ UNCHANGED <<barterMessages, storeVars, coinTransactions, now, otherVars, finalizeCount,
                    okConfirm, failures>>

\* One round of the loop: time.Parse of the item's expiry date, AddFoodItem.
SsiAdd(p) ==
  /\ pc[p] = "ssiAdd"
  /\ IF local[p].startStatus = "Invalid"
     THEN /\ foodItems' = foodItems
          /\ Return(p, local[p], "ErrInvalidExpiryDate")
     ELSE /\ Len(foodItems) < MaxFoodItems
          /\ foodItems' = Append(foodItems, [UserID |-> local[p].user,
                                             ReceiptScanID |-> local[p].id])
          /\ Goto(p, IF local[p].amount > 1 THEN "ssiAdd" ELSE "ssiUpdate",
                  [local[p] EXCEPT !.amount = @ - 1])
  /\ UNCHANGED <<barterMessages, storeVars, coinTransactions, now, finalizeCount, okConfirm,
                 failures, calls, s3Objects, barterItemLocations, donations, donationItems,
                 receiptScans, scanWorker>>

\* scan.Status = "Completed" on the copy read at the start, UpdateReceiptScan.
SsiUpdate(p) ==
  /\ pc[p] = "ssiUpdate"
  /\ receiptScans' = UpdateReceiptScan(receiptScans, local[p].id,
                                       [local[p].scan EXCEPT !.Status = "Completed"])
  /\ Return(p, local[p], "nil")
  /\ UNCHANGED <<barterMessages, storeVars, coinTransactions, now, finalizeCount, okConfirm,
                 failures, calls, s3Objects, barterItemLocations, donations, donationItems,
                 scanWorker, foodItems>>

\* ---------------------------------------------------------- specifications
ConfirmStep(p) ==
  \/ \E u \in Users, c \in DOMAIN barterChats : ConfirmBarterCompletion(p, u, c)
  \/ CbtUpdate(p)
  \/ CbtFirst(p)
  \/ CbtStatus(p)
  \/ CbtChat(p)
  \/ CbtItems(p)
  \/ CbtItem(p)
  \/ StoreError(p)

\* Confirmation requests only.
Next ==
  \/ \E p \in Procs : ConfirmStep(p)
  \/ Tick

Spec == Init /\ [][Next]_vars

\* Confirmation requests and the item catalog's writers.
NextItems ==
  \/ \E p \in Procs : ConfirmStep(p)
  \/ \E p \in Procs, u \in Users, id \in Items, q \in Quantities : UpdateBarterItem(p, u, id, q)
  \/ \E p \in Procs : UiSave(p)
  \/ \E id \in Items, status \in ItemStatuses : SetStatus(id, status)

SpecItems == Init /\ [][NextItems]_vars

\* Confirmation requests and the coin ledger's writers.
NextLedger ==
  \/ \E p \in Procs : ConfirmStep(p)
  \/ \E p \in Procs, u \in Users, f \in Features, a \in Amounts : UseCoins(p, u, f, a)
  \/ \E p \in Procs : UcCreate(p)
  \/ \E p \in Procs, u \in Users, a \in Amounts : RewardCoins(p, u, a)
  \/ \E p \in Procs : RcCreate(p)

SpecLedger == Init /\ [][NextLedger]_vars

SendStep(p) ==
  \/ \E u \in Users, c \in DOMAIN barterChats : SendBarterMessage(p, u, c)
  \/ SbmAdd(p)
  \/ SbmTime(p)

\* Messages and reads only.
NextRead ==
  \/ \E p \in Procs : SendStep(p)
  \/ \E p \in Procs, v \in Users, c \in DOMAIN barterChats : MarkRead(p, v, c)
  \/ \E p \in Procs : StoreError(p)
  \/ Tick

SpecRead == Init /\ [][NextRead]_vars

\* Messages beside confirmation requests.
NextMessages ==
  \/ \E p \in Procs : SendStep(p)
  \/ \E p \in Procs : ConfirmStep(p)
  \/ Tick

SpecMessages == Init /\ [][NextMessages]_vars

\* The stored state before any proposal: the chat, and no transaction.
InitPropose ==
  /\ barterItems = [i \in Items |->
       [UserID |-> IF i = "I" THEN "A" ELSE "B", Status |-> "Available", Quantity |-> 1]]
  /\ barterChats = [c \in Chats |->
       [BarterItemID |-> "I", OffererID |-> "B", OwnerID |-> "A", Status |-> "Active",
        LastMessageTime |-> 0]]
  /\ barterTransactions = [t \in {} |-> NoTransaction]
  /\ barterTransactionItems = {}
  /\ barterMessages = <<>>
  /\ coinTransactions = <<>>
  /\ now = 1
  /\ pc = [p \in Procs |-> "idle"]
  /\ local = [p \in Procs |-> NoLocal]
  /\ finalizeCount = [t \in TxIds |-> 0]
  /\ okConfirm = {}
  /\ failures = 0
  /\ calls = 0
  /\ InitOther

ProposeStep(p) ==
  \/ \E u \in Users, c \in DOMAIN barterChats :
       \E ownerItemIds, offererItemIds \in (SUBSET Items) \ {{}} :
         CompleteBarterTransaction(p, u, c, ownerItemIds, offererItemIds)
  \/ CbCreate(p)
  \/ CbAddItem(p)

\* Proposals beside item status changes.
NextPropose ==
  \/ \E p \in Procs : ProposeStep(p)
  \/ \E id \in Items, status \in ItemStatuses : SetStatus(id, status)
  \/ \E p \in Procs : StoreError(p)

SpecPropose == InitPropose /\ [][NextPropose]_vars

\* Proposals beside confirmation requests.
NextLifecycle ==
  \/ \E p \in Procs : ProposeStep(p)
  \/ \E p \in Procs : ConfirmStep(p)

SpecLifecycle == InitPropose /\ [][NextLifecycle]_vars

\* Ledger requests only.
NextCoins ==
  \/ \E p \in Procs, u \in Users, f \in Features, a \in Amounts : UseCoins(p, u, f, a)
  \/ \E p \in Procs : UcCreate(p)
  \/ \E p \in Procs, u \in Users, a \in Amounts : RewardCoins(p, u, a)
  \/ \E p \in Procs : RcCreate(p)
  \/ \E p \in Procs : StoreError(p)

SpecCoins == Init /\ [][NextCoins]_vars

\* Listings only.
NextCreate ==
  \/ \E p \in Procs, u \in {"A", "B"}, expiryParses, image \in BOOLEAN,
        quantity \in RequestQuantities, lat \in {0, 1}, lng \in {1} :
       CreateBarterItem(p, u, expiryParses, quantity, image, lat, lng)
  \/ \E p \in Procs : CbiUpload(p)
  \/ \E p \in Procs : CbiCreate(p)
  \/ \E p \in Procs : StoreError(p)

SpecCreate == Init /\ [][NextCreate]_vars

\* Searches while the items' statuses move.
NextNearby ==
  \/ \E p \in Procs, lat \in {0}, lng \in {0, 1}, radius \in Radii, userID \in {"A"},
        includeOwn \in BOOLEAN, status \in {"All", "Reserved"} :
       GetNearbyBarterItems(p, lat, lng, radius, userID, includeOwn, status)
  \/ \E id \in Items, status \in ItemStatuses : SetStatus(id, status)

SpecNearby == Init /\ [][NextNearby]_vars

\* Donation status updates.
NextDonation ==
  \/ \E p \in Procs, userID \in {"A", "B"}, donationID \in DonationIds \cup {"d0"},
        status \in DonationStatuses :
       UpdateDonationStatus(p, userID, donationID, status)
  \/ \E p \in Procs : UdsItems(p)
  \/ \E p \in Procs : UdsUpdate(p)
  \/ \E p \in Procs : StoreError(p)
  \/ Tick

SpecDonation == Init /\ [][NextDonation]_vars

\* Receipt scans: uploads, their goroutines, and the saving of scanned items.
NextScan ==
  \/ \E p \in Procs, userID \in {"A", "not-a-uuid"} : UploadReceipt(p, userID)
  \/ \E p \in Procs, ok \in BOOLEAN : UrUpload(p, ok)
  \/ \E p \in Procs, ok \in BOOLEAN : UrCreate(p, ok)
  \/ \E s \in ScanIds, ok \in BOOLEAN : ScanStep(s, ok)
  \/ \E s \in ScanIds, ok \in BOOLEAN : ScanUpdate(s, ok)
  \/ \E p \in Procs, userID \in {"A", "B"}, scanID \in {"s1", "s3"}, count \in {0, 1} :
       \E expiryParses \in (IF count = 0 THEN {TRUE} ELSE BOOLEAN) :
         SaveScannedItems(p, userID, scanID, expiryParses, count)
  \/ \E p \in Procs : SsiAdd(p)
  \/ \E p \in Procs : SsiUpdate(p)

\* A started goroutine is scheduled until it returns, and each of its
\* statements ends: the request to the model has a timeout of 60 seconds.
SpecScan ==
  /\ Init
  /\ [][NextScan]_vars
  /\ \A s \in ScanIds :
       /\ WF_vars(\E ok \in BOOLEAN : ScanStep(s, ok))
       /\ WF_vars(\E ok \in BOOLEAN : ScanUpdate(s, ok))

\* The stored state with two chats between A and B, one on each item, each
\* with a Pending transaction that names both items.
InitTwoChats ==
  /\ barterItems = [i \in Items |->
       [UserID |-> IF i = "I" THEN "A" ELSE "B", Status |-> "Available", Quantity |-> 1]]
  /\ barterChats = [c \in {"c1", "c2"} |->
       IF c = "c1"
       THEN [BarterItemID |-> "I", OffererID |-> "B", OwnerID |-> "A", Status |-> "Active",
             LastMessageTime |-> 0]
       ELSE [BarterItemID |-> "J", OffererID |-> "A", OwnerID |-> "B", Status |-> "Active",
             LastMessageTime |-> 0]]
  /\ barterTransactions = [t \in {"t1", "t2"} |->
       [ChatID |-> IF t = "t1" THEN "c1" ELSE "c2", OwnerConfirmed |-> FALSE,
        OffererConfirmed |-> FALSE, Status |-> "Pending", CoinsCharged |-> 0, CompletedAt |-> 0]]
  /\ barterTransactionItems =
       {[TransactionID |-> "t1", BarterItemID |-> "I", OwnerItem |-> TRUE],
        [TransactionID |-> "t1", BarterItemID |-> "J", OwnerItem |-> FALSE],
        [TransactionID |-> "t2", BarterItemID |-> "J", OwnerItem |-> TRUE],
        [TransactionID |-> "t2", BarterItemID |-> "I", OwnerItem |-> FALSE]}
  /\ barterMessages = <<>>
  /\ coinTransactions = <<>>
  /\ now = 1
  /\ pc = [p \in Procs |-> "idle"]
  /\ local = [p \in Procs |-> NoLocal]
  /\ finalizeCount = [t \in TxIds |-> 0]
  /\ okConfirm = {}
  /\ failures = 0
  /\ calls = 0
  /\ InitOther

\* Messages and reads in the two chats.
SpecTwoChatsRead == InitTwoChats /\ [][NextRead]_vars

\* Confirmation requests on the two transactions.
SpecTwoChats == InitTwoChats /\ [][Next]_vars

\* The stored state with transaction and chat cancelled before any confirmation.
InitCancelled ==
  /\ barterItems = [i \in Items |->
       [UserID |-> IF i = "I" THEN "A" ELSE "B", Status |-> "Available", Quantity |-> 1]]
  /\ barterChats = [c \in Chats |->
       [BarterItemID |-> "I", OffererID |-> "B", OwnerID |-> "A", Status |-> "Cancelled",
        LastMessageTime |-> 0]]
  /\ barterTransactions = [t \in Txs |->
       [ChatID |-> "c1", OwnerConfirmed |-> FALSE, OffererConfirmed |-> FALSE,
        Status |-> "Cancelled", CoinsCharged |-> 0, CompletedAt |-> 0]]
  /\ barterTransactionItems =
       {[TransactionID |-> "t1", BarterItemID |-> "I", OwnerItem |-> TRUE],
        [TransactionID |-> "t1", BarterItemID |-> "J", OwnerItem |-> FALSE]}
  /\ barterMessages = <<>>
  /\ coinTransactions = <<>>
  /\ now = 1
  /\ pc = [p \in Procs |-> "idle"]
  /\ local = [p \in Procs |-> NoLocal]
  /\ finalizeCount = [t \in Txs |-> 0]
  /\ okConfirm = {}
  /\ failures = 0
  /\ calls = 0
  /\ InitOther

\* Confirmation requests on the cancelled transaction.
SpecCancelled == InitCancelled /\ [][Next]_vars

\* Interest requests only.
NextInterest ==
  \/ \E p \in Procs, u \in Users, i \in Items : ExpressBarterInterest(p, u, i)
  \/ \E p \in Procs : EbiCreateChat(p)
  \/ \E p \in Procs : EbiAddMessage(p)
  \/ \E p \in Procs : StoreError(p)

SpecInterest == Init /\ [][NextInterest]_vars

\* ------------------------------------------------------------------ claims
TxChat(t) == barterChats[barterTransactions[t].ChatID]

\* C1: when the owner's and the offerer's confirmations of one transaction
\* run concurrently, the finalize block (status Completed with completedAt,
\* chat Completed, items Completed) is executed at most once.
C1_FinalizeAtMostOnce ==
  \A t \in Txs : finalizeCount[t] <= 1

\* C2: in every state another request can observe, a transaction is
\* Completed if and only if both confirmation flags are true.
C2_CompletedIffBothConfirmed ==
  \A t \in Txs :
    (barterTransactions[t].Status = "Completed")
      <=> (barterTransactions[t].OwnerConfirmed /\ barterTransactions[t].OffererConfirmed)

\* C3: a finalize whose coin charge fails for insufficient funds is rolled
\* back, so a transaction moves from Pending to Completed only when both
\* participants' balances cover the fixed cost.
C3_FailedChargeKeepsPending ==
  [][\A t \in Txs :
       (barterTransactions[t].Status = "Pending" /\ barterTransactions'[t].Status = "Completed")
         => /\ GetUserBalance(TxChat(t).OwnerID) >= BARTER_TRANSACTION_COIN_COST
            /\ GetUserBalance(TxChat(t).OffererID) >= BARTER_TRANSACTION_COIN_COST]_vars

\* C4: whenever no confirmation is in progress, a Completed transaction has
\* a Completed chat and only Completed linked items, also after a write of
\* the finalize block returned an error.
C4_CompletedImpliesAllCompleted ==
  (\A p \in Procs : pc[p] = "idle") =>
    \A t \in Txs :
      barterTransactions[t].Status = "Completed" =>
        /\ TxChat(t).Status = "Completed"
        /\ \A i \in GetBarterTransactionItems(t) : barterItems[i].Status = "Completed"

\* C5: a confirmCompletion call made on a transaction that is already
\* Completed changes no row of the store and runs no finalize block:
\* completedAt keeps its value and no item or chat status is written again.
C5_ReconfirmChangesNothing ==
  [][\A p \in Procs :
       (/\ local'[p].op = "confirm"
        /\ local'[p].startStatus = "Completed"
        /\ (pc'[p] # pc[p] \/ local'[p] # local[p]))
         => UNCHANGED <<barterMessages, storeVars, coinTransactions, finalizeCount>>]_vars

C5_Witness ==
  \E p \in Procs :
    /\ local[p].op = "confirm"
    /\ local[p].user \in {"A", "B"}
    /\ local[p].startStatus = "Completed"
    /\ local[p].result = "ErrBarterAlreadyCompleted"
    /\ barterTransactions["t1"].CompletedAt > 0

\* C6: once the owner and the offerer have each had a confirmCompletion call
\* on the Pending transaction return without error, the transaction, its
\* chat and its linked items are Completed, in every interleaving.
C6_BothConfirmedCompletes ==
  \A t \in Txs :
    {TxChat(t).OwnerID, TxChat(t).OffererID} \subseteq okConfirm =>
      /\ barterTransactions[t].Status = "Completed"
      /\ TxChat(t).Status = "Completed"
      /\ \A i \in GetBarterTransactionItems(t) : barterItems[i].Status = "Completed"

C6_Witness ==
  /\ okConfirm = {"A", "B"}
  /\ \A p \in Procs : pc[p] = "idle"
  /\ barterTransactions["t1"].Status = "Completed"

\* C7: every Completed transaction records a coins-charged amount equal to
\* the fixed per-transaction cost.
C7_CompletedChargedFixedCost ==
  \A t \in Txs :
    barterTransactions[t].Status = "Completed" =>
      barterTransactions[t].CoinsCharged = BARTER_TRANSACTION_COIN_COST

\* C8: the step that finalizes a transaction lowers the ledger balance of
\* the owner and of the offerer by the fixed cost.
C8_FinalizeChargesBoth ==
  [][\A t \in Txs :
       (barterTransactions[t].Status = "Pending" /\ barterTransactions'[t].Status = "Completed")
         => /\ LatestBalance(coinTransactions', TxChat(t).OwnerID)
                 = GetUserBalance(TxChat(t).OwnerID) - BARTER_TRANSACTION_COIN_COST
            /\ LatestBalance(coinTransactions', TxChat(t).OffererID)
                 = GetUserBalance(TxChat(t).OffererID) - BARTER_TRANSACTION_COIN_COST]_vars

\* C9: an item's status never moves backward in the order Available,
\* Reserved, Completed, whatever updateItem, setStatus and finalize do.
C9_StatusNeverBackward ==
  [][\A i \in Items :
       /\ barterItems[i].Status = "Reserved" => barterItems'[i].Status # "Available"
       /\ barterItems[i].Status = "Completed" => barterItems'[i].Status = "Completed"]_vars

\* C10: every change of an item's status is Available to Reserved or
\* Reserved to Completed; none goes from Available straight to Completed.
C10_StatusNeverSkips ==
  [][\A i \in Items :
       barterItems'[i].Status # barterItems[i].Status =>
         \/ barterItems[i].Status = "Available" /\ barterItems'[i].Status = "Reserved"
         \/ barterItems[i].Status = "Reserved" /\ barterItems'[i].Status = "Completed"]_vars

\* C11: there is at most one chat per (item, offerer, owner) triple, also
\* when two expressInterest calls for one triple both look the chat up
\* before either creates it.
C11_OneChatPerTriple ==
  \A c, d \in DOMAIN barterChats :
    c # d =>
      <<barterChats[c].BarterItemID, barterChats[c].OffererID, barterChats[c].OwnerID>>
        # <<barterChats[d].BarterItemID, barterChats[d].OffererID, barterChats[d].OwnerID>>

\* C12: an expressInterest call for a triple that already has a chat creates
\* no chat and no message, and what it returns is a chat of that triple.
C12_RepeatedInterestReturnsChat ==
  [][\A p \in Procs :
       (/\ local'[p].op = "express"
        /\ local'[p].startStatus = "Exists"
        /\ (pc'[p] # pc[p] \/ local'[p] # local[p]))
         => /\ UNCHANGED <<barterChats, barterMessages>>
            /\ pc'[p] = "idle"
            /\ local'[p].result \in
                 ChatsOfTriple(local'[p].id, local'[p].user, barterItems[local'[p].id].UserID)]_vars

C12_Witness ==
  \E p \in Procs :
    /\ local[p].op = "express"
    /\ local[p].startStatus = "Exists"
    /\ local[p].result \in DOMAIN barterChats

\* C18: expressInterest by the item's own owner fails with SelfTransaction
\* and creates neither chat nor message, and no chat has its offerer equal
\* to its owner.
C18_NoSelfTransaction ==
  /\ [](\A c \in DOMAIN barterChats : barterChats[c].OffererID # barterChats[c].OwnerID)
  /\ [][\A p \in Procs :
          (/\ local'[p].op = "express"
           /\ local'[p].id \in Items
           /\ local'[p].user = barterItems[local'[p].id].UserID
           /\ (pc'[p] # pc[p] \/ local'[p] # local[p]))
            => /\ UNCHANGED <<barterChats, barterMessages>>
               /\ local'[p].result = "ErrBarterSelfTransaction"]_vars

C18_Witness ==
  \E p \in Procs :
    /\ local[p].op = "express"
    /\ local[p].id \in Items
    /\ local[p].user = barterItems[local[p].id].UserID
    /\ local[p].result = "ErrBarterSelfTransaction"

C17_OutsiderConfirmRejected ==
  [][\A p \in Procs :
       (/\ local'[p].op = "confirm"
        /\ \A c \in DOMAIN barterChats :
             local'[p].user \notin {barterChats[c].OwnerID, barterChats[c].OffererID}
        /\ (pc'[p] # pc[p] \/ local'[p] # local[p]))
         => /\ local'[p].result = "ErrUnauthorizedBarterAccess"
            /\ pc'[p] = "idle"
            /\ UNCHANGED storeVars]_vars

C17_Witness ==
  \E p \in Procs :
    /\ local[p].op = "confirm"
    /\ local[p].user = "S"
    /\ local[p].result = "ErrUnauthorizedBarterAccess"
    /\ \E t \in DOMAIN barterTransactions : barterTransactions[t].OwnerConfirmed

\* The other participant of a chat.
Counterparty(c, v) ==
  IF v = barterChats[c].OwnerID THEN barterChats[c].OffererID ELSE barterChats[c].OwnerID

\* C16: a participant's unread count of a chat is the number of the
\* counterparty's messages in it with isRead false; right after that
\* participant's markRead the count is zero; a markRead that finds the count
\* at zero changes no message.
C16_UnreadCountAndMarkRead ==
  /\ [](\A c \in DOMAIN barterChats : \A v \in {barterChats[c].OwnerID, barterChats[c].OffererID} :
          GetUnreadMessageCount(c, v) =
            Cardinality({k \in 1..Len(barterMessages) :
                           /\ barterMessages[k].ChatID = c
                           /\ barterMessages[k].SenderID = Counterparty(c, v)
                           /\ ~barterMessages[k].IsRead}))
  /\ [][\A p \in Procs, v \in Users, c \in DOMAIN barterChats :
          MarkRead(p, v, c)
            => /\ CountUnread(barterMessages', Len(barterMessages'), c, v) = 0
               /\ (GetUnreadMessageCount(c, v) = 0 => UNCHANGED barterMessages)]_vars

C16_Witness ==
  \E p \in Procs :
    /\ local[p].op = "markRead"
    /\ \E k \in 1..Len(barterMessages) :
         /\ barterMessages[k].ChatID = local[p].id
         /\ barterMessages[k].SenderID # local[p].user
         /\ barterMessages[k].IsRead

\* C19: sendMessage is accepted only from a participant of an Active chat, a
\* rejected call appends nothing and leaves the chat's last-message
\* timestamp as it was, and so a message is only ever added to a chat that
\* is Active.
C19_MessagesOnlyToActiveChats ==
  /\ [][Len(barterMessages') > Len(barterMessages)
          => barterChats[barterMessages'[Len(barterMessages')].ChatID].Status = "Active"]_vars
  /\ [][\A p \in Procs :
          (/\ local'[p].op = "send"
           /\ local'[p].result \in {"ErrUnauthorizedBarterAccess", "ErrInvalidBarterStatus"}
           /\ (pc'[p] # pc[p] \/ local'[p] # local[p]))
            => UNCHANGED <<barterMessages, barterChats>>]_vars

\* C13: a chat has at most one transaction, also when two proposals for
\* the chat both look for its transaction before either creates one.
C13_OneTransactionPerChat ==
  \A t, x \in DOMAIN barterTransactions :
    t # x => barterTransactions[t].ChatID # barterTransactions[x].ChatID

C20_ProposalOnlyFromValidItems ==
  /\ [](\A ti \in barterTransactionItems :
          LET chat == barterChats[barterTransactions[ti.TransactionID].ChatID]
          IN barterItems[ti.BarterItemID].UserID =
               (IF ti.OwnerItem THEN chat.OwnerID ELSE chat.OffererID))
  /\ [][(barterTransactions' # barterTransactions \/ barterTransactionItems' # barterTransactionItems)
          => \E p \in Procs :
               /\ pc[p] \in {"cbCreate", "cbAddItem"}
               /\ local'[p] # local[p]
               /\ local[p].startStatus = "Valid"]_vars
  /\ [][\A p \in Procs :
          (/\ local'[p].op = "propose"
           /\ local'[p].startStatus = "Invalid"
           /\ (pc'[p] # pc[p] \/ local'[p] # local[p]))
            => /\ pc'[p] = "idle"
               /\ UNCHANGED <<barterTransactions, barterTransactionItems>>]_vars

C20_Witness ==
  \E p \in Procs :
    /\ local[p].op = "propose"
    /\ local[p].startStatus = "Valid"
    /\ local[p].result \in DOMAIN barterTransactions
    /\ Cardinality({ti \in barterTransactionItems : ti.TransactionID = local[p].result}) = 2
    /\ \E q \in Procs : local[q].op = "propose" /\ local[q].startStatus = "Invalid"

\* C25: a step of a confirmCompletion call on a Pending transaction whose
\* other participant has not confirmed sets at most the caller's flag: the
\* other flag, the status, completedAt, the chat and every item stay as they
\* were, the call does not enter the finalize, and a repeated confirmation
\* by the same participant leaves the row as it is.
C25_SingleConfirmSetsOnlyCallersFlag ==
  [][\A p \in Procs :
       (pc[p] \in {"cbtUpdate", "cbtFirst"} /\ (pc'[p] # pc[p] \/ local'[p] # local[p]))
         => LET t == local[p].id
                row == barterTransactions[t]
                callerIsOwner == local[p].user = barterChats[row.ChatID].OwnerID
                otherConfirmed == IF callerIsOwner THEN row.OffererConfirmed ELSE row.OwnerConfirmed
                confirmed == IF callerIsOwner THEN [row EXCEPT !.OwnerConfirmed = TRUE]
                                              ELSE [row EXCEPT !.OffererConfirmed = TRUE]
            IN (row.Status = "Pending" /\ ~otherConfirmed)
                 => /\ barterTransactions' \in {barterTransactions,
                                                [barterTransactions EXCEPT ![t] = confirmed]}
                    /\ UNCHANGED <<barterItems, barterChats, barterTransactionItems>>
                    /\ pc'[p] \in {"cbtFirst", "idle"}]_vars

C25_Witness ==
  /\ \A p \in Procs : local[p].op = "confirm" /\ local[p].user = "B" /\ local[p].result = "nil"
  /\ pc = [p \in Procs |-> "idle"]
  /\ barterTransactions["t1"].OffererConfirmed
  /\ ~barterTransactions["t1"].OwnerConfirmed
  /\ barterTransactions["t1"].Status = "Pending"

\* C26: markRead(chat, viewer) changes nothing but the read flag of the
\* chat's messages not sent by the viewer: the viewer's own messages and the
\* messages of other chats keep their flag, so the counterparty's unread
\* count is unchanged; and a read flag that is true never becomes false.
C26_MarkReadFrame ==
  /\ [][\A p \in Procs, v \in Users, c \in DOMAIN barterChats :
          MarkRead(p, v, c)
            => /\ Len(barterMessages') = Len(barterMessages)
               /\ \A k \in 1..Len(barterMessages) :
                    /\ barterMessages'[k].ChatID = barterMessages[k].ChatID
                    /\ barterMessages'[k].SenderID = barterMessages[k].SenderID
                    /\ (barterMessages[k].ChatID # c \/ barterMessages[k].SenderID = v)
                         => barterMessages'[k].IsRead = barterMessages[k].IsRead
               /\ IsBarterParticipant(barterChats[c], v)
                    => CountUnread(barterMessages', Len(barterMessages'), c, Counterparty(c, v))
                         = GetUnreadMessageCount(c, Counterparty(c, v))]_vars
  /\ [][\A k \in 1..Len(barterMessages) :
          barterMessages[k].IsRead => barterMessages'[k].IsRead]_vars

C26_Witness ==
  /\ \E p \in Procs : local[p].op = "markRead" /\ local[p].id = "c1" /\ local[p].user = "A"
  /\ \E k \in 1..Len(barterMessages) :
       /\ barterMessages[k].ChatID = "c1" /\ barterMessages[k].SenderID = "B"
       /\ barterMessages[k].IsRead
  /\ \E k \in 1..Len(barterMessages) :
       /\ barterMessages[k].ChatID = "c2" /\ ~barterMessages[k].IsRead

\* C27: no barter item is linked to two different Completed transactions:
\* once an item has been traded in one finalized transaction, no other
\* transaction that names it finalizes.
C27_ItemTradedAtMostOnce ==
  \A x, y \in barterTransactionItems :
    (/\ x.BarterItemID = y.BarterItemID
     /\ x.TransactionID # y.TransactionID
     /\ barterTransactions[x.TransactionID].Status = "Completed")
      => barterTransactions[y.TransactionID].Status # "Completed"

\* C24: a UseCoins call for a user whose balance is lower than the cost
\* returns ErrInsufficientCoins and appends nothing; a charge that succeeds
\* appends exactly one ledger entry, and that entry's balance is the user's
\* balance before it minus the cost.
C24_ChargeAgainstBalance ==
  /\ [][\A p \in Procs, u \in Users, f \in Features, a \in Amounts :
          (/\ UseCoins(p, u, f, a)
           /\ FeatureCost(f) # 0
           /\ GetUserBalance(u) < (IF a > 0 THEN a ELSE FeatureCost(f)))
            => /\ local'[p].result = "ErrInsufficientCoins"
               /\ UNCHANGED coinTransactions]_vars
  /\ [][\A p \in Procs :
          (pc[p] = "ucCreate" /\ pc'[p] = "idle" /\ local'[p].result = "nil")
            => /\ coinTransactions' =
                    Append(coinTransactions, coinTransactions'[Len(coinTransactions')])
               /\ coinTransactions'[Len(coinTransactions')].UserID = local[p].user
               /\ coinTransactions'[Len(coinTransactions')].Amount = 0 - local[p].amount
               /\ coinTransactions'[Len(coinTransactions')].Balance
                    = GetUserBalance(local[p].user) - local[p].amount]_vars

\* The sum of the Amount fields of a user's ledger entries.
RECURSIVE SumAmounts(_, _)
SumAmounts(rows, u) ==
  IF rows = <<>> THEN 0
  ELSE SumAmounts(SubSeq(rows, 1, Len(rows) - 1), u)
         + (IF rows[Len(rows)].UserID = u THEN rows[Len(rows)].Amount ELSE 0)

\* C28: for every user the balance GetUserBalance returns is the sum of the
\* Amount fields of the user's coin transactions, also when two calls read
\* the balance before either writes its entry.
C28_BalanceIsSumOfAmounts ==
  \A u \in Users : GetUserBalance(u) = SumAmounts(coinTransactions, u)

\* The Completed transactions in which a user is owner or offerer.
CompletedTransactionsOf(u) ==
  {t \in DOMAIN barterTransactions :
     /\ barterTransactions[t].Status = "Completed"
     /\ u \in {barterChats[barterTransactions[t].ChatID].OwnerID,
               barterChats[barterTransactions[t].ChatID].OffererID}}

\* C23: in every reachable state getStatistics(user) reports as completed
\* barters the number of Completed transactions the user takes part in, as
\* items traded the number of items linked to those transactions, and as
\* coins spent that number of transactions times the fixed cost 5.
C23_StatisticsMatchTransactions ==
  \A u \in Users :
    /\ GetBarterStatistics(u).total_barters_completed = Cardinality(CompletedTransactionsOf(u))
    /\ GetBarterStatistics(u).total_items_traded =
         Cardinality({ti \in barterTransactionItems :
                        ti.TransactionID \in CompletedTransactionsOf(u)})
    /\ GetBarterStatistics(u).total_coins_spent = Cardinality(CompletedTransactionsOf(u)) * BARTER_TRANSACTION_COIN_COST

\* C22: createItem rejects a request whose expiry date does not parse or
\* whose quantity is not greater than 0 before it writes anything, and when
\* the call has failed, at the validation or later, there is no row of the
\* item and no uploaded image of it: every object in the bucket belongs to
\* a created item or to a call still in progress.
C22_CreateItemLeavesNothingOnFailure ==
  /\ [][\A p \in Procs :
          (/\ local'[p].op = "createItem"
           /\ local'[p].startStatus = "Invalid"
           /\ (pc'[p] # pc[p] \/ local'[p] # local[p]))
            => /\ pc'[p] = "idle"
               /\ local'[p].result \in {"ErrValidation", "ErrParseTime"}
               /\ UNCHANGED <<barterItems, s3Objects>>]_vars
  /\ [](\A k \in s3Objects :
          \/ k.name \in DOMAIN barterItems
          \/ \E p \in Procs : pc[p] # "idle" /\ local[p].id = k.name)

\* C21: every item that findNearby returns lies within radiusKm of the query
\* point, and the returned items are in non-decreasing order of distance.
C21_NearbyWithinRadiusInOrder ==
  \A p \in Procs :
    local[p].op = "findNearby" =>
      LET from == <<local[p].lat, local[p].lng>>
          found == local[p].items
          d2(n) == EarthDistance2(from, barterItemLocations[found[n]])
      IN /\ \A n \in 1..Len(found) : d2(n) <= local[p].amount * local[p].amount
         /\ \A m, n \in 1..Len(found) : m < n => d2(m) <= d2(n)

\* C29: when UpdateDonationStatus has moved a donation to Completed, the
\* stored donation has its completedAt set and its CoinsRewarded equal to
\* COINS_PER_DONATION_ITEM times the number of its items, and a further
\* request for Completed on it leaves CoinsRewarded as it is.
C29_CompletedDonationIsRewarded ==
  /\ [](\A d \in DonationIds :
          donations[d].Status = "Completed" =>
            /\ donations[d].CompletedAt > 0
            /\ donations[d].CoinsRewarded =
                 COINS_PER_DONATION_ITEM * Cardinality(GetDonationItems(d)))
  /\ [][\A p \in Procs :
          (UdsUpdate(p) /\ local[p].status = "Completed" /\ local[p].startStatus = "Completed")
            => donations'[local[p].id].CoinsRewarded = donations[local[p].id].CoinsRewarded]_vars

\* C30: once UploadReceipt has stored a Pending scan and returned, the
\* goroutine of that scan eventually reaches its update with Status Processed
\* or Failed on every path and, unless that update returns an error, the
\* stored scan has taken that status; the goroutine's update writes no other
\* status.
C30_ScanLeavesPending ==
  /\ \A s \in ScanIds :
       (s \in DOMAIN receiptScans) ~>
         (/\ s \in DOMAIN scanWorker
          /\ \/ scanWorker[s].pc = "updateFailed"
             \/ /\ scanWorker[s].pc = "done"
                /\ scanWorker[s].Status \in {"Processed", "Failed"})
  /\ [][\A s \in ScanIds :
          ScanUpdate(s, TRUE) => receiptScans'[s].Status \in {"Processed", "Failed"}]_vars

C30_Witness ==
  \E s \in DOMAIN receiptScans :
    /\ scanWorker[s].pc = "done"
    /\ receiptScans[s].Status = "Processed"
    /\ \E p \in Procs : local[p].op = "uploadReceipt" /\ local[p].id = s
                        /\ local[p].result = "Pending"

====
